---- MODULE Spec2Model ----
(***************************************************************************)
(* A model of the explicit-state checker of checker.h (Checker<StateType>  *)
(* and ModelState<StateType>) together with the models that instantiate it.*)
(*                                                                         *)
(* The engine is one sequential procedure (Checker::run); its position is  *)
(* kept in pc and each action is one call of onNewState together with the  *)
(* code of run / either / generate that leads to it.                       *)
(***************************************************************************)
EXTENDS Integers, Sequences, FiniteSets, TLC

VARIABLES
    StateType,      \* the template argument of Checker<StateType>
    mdl,            \* the user model, when StateType is the generic one
    initialStates,  \* the vector passed to Checker::run
    pc,             \* position of the thread inside Checker::run
    idx,            \* index of the next element of initialStates (for loop)
    seenStates,     \* Checker::_seenStates : Fingerprint -> StateType
    unvisited,      \* Checker::_unvisited  : FIFO queue of StateType
    stats,          \* Checker::_stats      : generated / unique
    curState,       \* run's local curState (the state popped last)
    newState,       \* run's local newState (the object generate works on)
    gpc,            \* position inside generate (next program point)
    frames,         \* the `temp' locals of the either calls now on the stack
    tr,             \* trace()'s local vector `trace'
    cur,            \* trace()'s local `cur'
    out,            \* what has been written to std::cout
    evals,          \* number of satisfyInvariant / satisfyConstraint calls
    popped,         \* every state run has popped so far, in order
    emitted         \* arguments of the onNewState calls of this generate

vars == <<StateType, mdl, initialStates, pc, idx, seenStates, unvisited, stats,
          curState, newState, gpc, frames, tr, cur, out, evals, popped, emitted>>

-----------------------------------------------------------------------------
(* Bounds of the generic model family.                                     *)

\* number of distinct values of the hashed field of a generic state
NumValues == 3
\* number of guarded either calls in the generic generate
NumBranches == 3
\* longest vector trace() can build before the allocation fails
MaxTrace == 8

Values == 1..NumValues

\* the value std::unordered_map::find(...)->second yields when the key is
\* absent is undefined; NoState stands for "no state was popped yet"
NoState == [none |-> TRUE]

Range(s) == {s[i] : i \in DOMAIN s}

Reverse(s) == [i \in 1..Len(s) |-> s[Len(s) + 1 - i]]

-----------------------------------------------------------------------------
(* The generic user model: a state has one hashed field f; generate is     *)
(*   for k in 1..NumBranches: if (f == from[k]) either([&]{ f = to[k]; }); *)
(* satisfyInvariant is f \notin bad, satisfyConstraint is f \notin pruned, *)
(* hash is an arbitrary function of f alone (AbslHashValue never combines  *)
(* prevHash).                                                              *)

Branches == [from : Values, to : Values]

\* fingerprint functions the generic model may use: injective ones and one
\* with a collision
HashMenu ==
    { [f \in Values |-> f],
      [f \in Values |-> IF f = NumValues THEN 1 ELSE f] }

\* the either calls of generate in program order; only the order among
\* the calls with the same guard matters, so the lists are taken sorted on it
BranchLists ==
    { b \in [1..NumBranches -> Branches] :
        \A i, j \in 1..NumBranches : i < j => b[i].from <= b[j].from }

GenericModels ==
    [ branch : BranchLists,
      bad    : {{}} \cup {{v} : v \in Values},
      pruned : {{}} \cup {{v} : v \in Values},
      hash   : HashMenu ]

GenericHash(s) == mdl.hash[s.f]

GenericInvariant(s) == s.f \notin mdl.bad

GenericConstraint(s) == s.f \notin mdl.pruned

GenericProgram == [k \in 1..NumBranches |-> [kind |-> "leaf", id |-> k]]

GenericGuard(k, s) == s.f = mdl.branch[k].from

GenericBranch(k, s) == [s EXCEPT !.f = mdl.branch[k].to]

-----------------------------------------------------------------------------
(* The jug model: struct State of die_hard_checker.cpp.                    *)

\* int8_t big, small: an int result stored back into an int8_t field
Int8(x) == ((x + 128) % 256) - 128

\* a digest that combines prevHash with big and small
JugHashWithPrevHash(s) == 1 + (s.big * 4) + s.small + (32 * (s.prevHash % 32))

\* AbslHashValue combines big and small only; the digest itself is opaque,
\* so it is modelled by an injective non-zero encoding of the two fields
JugHash(s) == 1 + (s.big * 4) + s.small

JugInvariant(s) == s.big # 4

\* struct State declares no satisfyConstraint: nothing is pruned
JugConstraint(s) == TRUE

JugProgram == [k \in 1..6 |-> [kind |-> "leaf", id |-> k]]

JugGuard(k, s) == TRUE

FillSmallJug(s) == [s EXCEPT !.small = 3]

FillBigJug(s) == [s EXCEPT !.big = 5]

EmptySmallJug(s) == [s EXCEPT !.small = 0]

EmptyBigJug(s) == [s EXCEPT !.big = 0]

\* the then-branch assigns big first and reads it again for small
SmallToBig(s) ==
    IF s.big + s.small > 5
    THEN LET s1 == [s EXCEPT !.big = 5]
         IN  [s1 EXCEPT !.small = Int8(s1.big + s1.small - 5)]
    ELSE LET s1 == [s EXCEPT !.big = Int8(s.big + s.small)]
         IN  [s1 EXCEPT !.small = 0]

BigToSmall(s) ==
    IF s.big + s.small > 3
    THEN LET s1 == [s EXCEPT !.big = Int8(s.big + s.small - 3)]
         IN  [s1 EXCEPT !.small = 3]
    ELSE LET s1 == [s EXCEPT !.small = Int8(s.small + s.big)]
         IN  [s1 EXCEPT !.big = 0]

JugBranch(k, s) ==
    CASE k = 1 -> FillSmallJug(s)
      [] k = 2 -> FillBigJug(s)
      [] k = 3 -> EmptySmallJug(s)
      [] k = 4 -> EmptyBigJug(s)
      [] k = 5 -> SmallToBig(s)
      [] k = 6 -> BigToSmall(s)

-----------------------------------------------------------------------------
(* The replication model: struct MongoState of mongo_raft_checker.cpp.     *)

\* enum Node { N1, N2, N3, ALL_NODES }
ALL_NODES == 3

all_nodes == <<1, 2, 3>>

\* TermType is uint8_t
Uint8(x) == x % 256

Last(log) == log[Len(log)]

IsMajority(nodeCount) == nodeCount * 2 > ALL_NODES

\* CanRollbackOplog with the comparison of the last terms turned around
CanRollbackOplogOlder(rlog, slog) ==
    IF rlog = <<>> \/ slog = <<>> THEN FALSE
    ELSE Last(rlog) > Last(slog)

CanRollbackOplog(rlog, slog) ==
    IF rlog = <<>> \/ slog = <<>> THEN FALSE
    ELSE Last(rlog) < Last(slog)

RollbackCommitted(logs, me) ==
    IF logs[me] = <<>> THEN FALSE
    ELSE LET myLog == logs[me]
             replicaCount ==
                 Cardinality({i \in DOMAIN logs :
                                /\ Len(logs[i]) >= Len(myLog)
                                /\ logs[i][Len(myLog)] = Last(myLog)})
         IN  IF ~IsMajority(replicaCount) THEN FALSE
             ELSE \E i \in DOMAIN logs : CanRollbackOplog(logs[me], logs[i])

NotBehind(me, syncSource) ==
    IF syncSource = <<>> THEN TRUE
    ELSE IF me = <<>> THEN FALSE
    ELSE \/ Last(me) > Last(syncSource)
         \/ Last(me) = Last(syncSource) /\ Len(me) >= Len(syncSource)

RaftInvariant(s) ==
    \A i \in DOMAIN all_nodes : ~RollbackCommitted(s.logs, all_nodes[i])

\* RollbackCommitted gated on the current term: the entry of `me' counts as
\* committed only when it was written in globalCurrentTerm
RollbackCommittedCurrentTerm(logs, me, globalCurrentTerm) ==
    IF logs[me] = <<>> THEN FALSE
    ELSE IF Last(logs[me]) # globalCurrentTerm THEN FALSE
    ELSE RollbackCommitted(logs, me)

\* satisfyInvariant over the gated RollbackCommitted
RaftCurrentTermInvariant(s) ==
    \A i \in DOMAIN all_nodes :
        ~RollbackCommittedCurrentTerm(s.logs, all_nodes[i], s.globalCurrentTerm)

RaftConstraint(s) ==
    IF s.globalCurrentTerm > 3 THEN FALSE
    ELSE \A i \in DOMAIN s.logs : Len(s.logs[i]) < 3

\* AbslHashValue combines globalCurrentTerm, states and logs, not prevHash;
\* the opaque digest is modelled by an injective non-zero encoding
LogCode(log) ==
    LET RECURSIVE code(_)
        code(i) == IF i > Len(log) THEN 0 ELSE (log[i] + 1) + 6 * code(i + 1)
    IN  code(1)

StatesCode(states) ==
    LET bit(i) == IF states[i] = "Primary" THEN 1 ELSE 0
    IN  bit(1) + 2 * bit(2) + 4 * bit(3)

RaftHash(s) ==
    1 + s.globalCurrentTerm
      + 8 * (StatesCode(s.states)
             + 8 * (LogCode(s.logs[1])
                    + 216 * (LogCode(s.logs[2]) + 216 * LogCode(s.logs[3]))))

\* the guarded either calls of MongoState::generate in program order: the
\* receiver/sender loop makes AppendOplog then RollbackOplog, the node loop
\* BecomePrimaryByMagic then the client write
RaftProgram ==
    [k \in 1..24 |->
        IF k <= 18
        THEN [kind |-> "leaf",
              id |-> IF k % 2 = 1 THEN "AppendOplog" ELSE "RollbackOplog",
              receiver |-> all_nodes[((k - 1) \div 6) + 1],
              sender |-> all_nodes[(((k - 1) \div 2) % 3) + 1]]
        ELSE [kind |-> "leaf",
              id |-> IF k % 2 = 1 THEN "BecomePrimaryByMagic" ELSE "ClientWrite",
              n |-> all_nodes[((k - 19) \div 2) + 1]]]

RaftGuard(p, s) ==
    CASE p.id = "AppendOplog" ->
            LET rlog == s.logs[p.receiver]
                slog == s.logs[p.sender]
            IN  /\ ~(Len(rlog) >= Len(slog))
                /\ (rlog = <<>> \/ slog[Len(rlog)] = Last(rlog))
      [] p.id = "RollbackOplog" ->
            CanRollbackOplog(s.logs[p.receiver], s.logs[p.sender])
      [] p.id = "BecomePrimaryByMagic" ->
            LET notBehindCount ==
                    Cardinality({i \in DOMAIN s.logs :
                                   NotBehind(s.logs[p.n], s.logs[i])})
            IN  IsMajority(notBehindCount)
      [] p.id = "ClientWrite" ->
            s.states[p.n] = "Primary"

\* the lambdas of generate with a client write that stamps the next term
RaftBranchWriteNextTerm(p, s) ==
    CASE p.id = "AppendOplog" ->
            LET rlog == s.logs[p.receiver]
                slog == s.logs[p.sender]
            IN  [s EXCEPT !.logs[p.receiver] = Append(rlog, slog[Len(rlog) + 1])]
      [] p.id = "RollbackOplog" ->
            [s EXCEPT !.logs[p.receiver] = SubSeq(@, 1, Len(@) - 1)]
      [] p.id = "BecomePrimaryByMagic" ->
            [s EXCEPT !.states = [i \in DOMAIN s.states |->
                                    IF i = p.n THEN "Primary" ELSE "Secondary"],
                      !.globalCurrentTerm = Uint8(@ + 1)]
      [] p.id = "ClientWrite" ->
            [s EXCEPT !.logs[p.n] = Append(@, Uint8(s.globalCurrentTerm + 1))]

RaftBranch(p, s) ==
    CASE p.id = "AppendOplog" ->
            LET rlog == s.logs[p.receiver]
                slog == s.logs[p.sender]
            IN  [s EXCEPT !.logs[p.receiver] = Append(rlog, slog[Len(rlog) + 1])]
      [] p.id = "RollbackOplog" ->
            [s EXCEPT !.logs[p.receiver] = SubSeq(@, 1, Len(@) - 1)]
      [] p.id = "BecomePrimaryByMagic" ->
            [s EXCEPT !.states = [i \in DOMAIN s.states |->
                                    IF i = p.n THEN "Primary" ELSE "Secondary"],
                      !.globalCurrentTerm = Uint8(@ + 1)]
      [] p.id = "ClientWrite" ->
            [s EXCEPT !.logs[p.n] = Append(@, s.globalCurrentTerm)]

-----------------------------------------------------------------------------
(* The first MongoState of mongo_raft_checker.cpp (lines 33-98): generate  *)
(* makes either calls inside the lambdas of two outer either calls.        *)

NestedInvariant(s) == Len(s.logs[1]) < 3

\* that struct declares no satisfyConstraint
NestedConstraint(s) == TRUE

\* either(for receiver, sender: either(AppendOplog));  either(ClientWrite)
NestedProgram ==
    [k \in 1..16 |->
        CASE k = 1  -> [kind |-> "enter", id |-> "Replicate"]
          [] k \in 2..10 ->
                [kind |-> "leaf", id |-> "AppendOplog",
                 receiver |-> all_nodes[((k - 2) \div 3) + 1],
                 sender |-> all_nodes[((k - 2) % 3) + 1]]
          [] k = 11 -> [kind |-> "exit", id |-> "Replicate"]
          [] k = 12 -> [kind |-> "enter", id |-> "ClientWrite"]
          [] k \in 13..15 ->
                [kind |-> "leaf", id |-> "ClientWrite", n |-> all_nodes[k - 12]]
          [] k = 16 -> [kind |-> "exit", id |-> "ClientWrite"]]

\* only the client write is guarded outside its either call
NestedGuard(p, s) ==
    IF p.kind = "leaf" /\ p.id = "ClientWrite"
    THEN s.states[p.n] = "Primary"
    ELSE TRUE

\* here AppendOplog tests its conditions inside the lambda
NestedBranch(p, s) ==
    CASE p.id = "AppendOplog" ->
            LET rlog == s.logs[p.receiver]
                slog == s.logs[p.sender]
            IN  IF Len(rlog) >= Len(slog) THEN s
                ELSE IF rlog = <<>> \/ slog[Len(rlog)] = Last(rlog)
                THEN [s EXCEPT !.logs[p.receiver] =
                                    Append(rlog, slog[Len(rlog) + 1])]
                ELSE s
      [] p.id = "ClientWrite" ->
            [s EXCEPT !.logs[p.n] = Append(@, s.globalCurrentTerm)]

-----------------------------------------------------------------------------
(* The model contract, dispatched on the template argument.                *)

\* ModelState::hash
hash(s) ==
    CASE StateType = "Generic" -> GenericHash(s)
      [] StateType = "Jug"     -> JugHash(s)
      [] StateType = "Raft"    -> RaftHash(s)
      [] StateType = "Nested"  -> RaftHash(s)
      [] StateType = "RaftCurrentTerm" -> RaftHash(s)

satisfyInvariant(s) ==
    CASE StateType = "Generic" -> GenericInvariant(s)
      [] StateType = "Jug"     -> JugInvariant(s)
      [] StateType = "Raft"    -> RaftInvariant(s)
      [] StateType = "Nested"  -> NestedInvariant(s)
      [] StateType = "RaftCurrentTerm" -> RaftCurrentTermInvariant(s)

satisfyConstraint(s) ==
    CASE StateType = "Generic" -> GenericConstraint(s)
      [] StateType = "Jug"     -> JugConstraint(s)
      [] StateType = "Raft"    -> RaftConstraint(s)
      [] StateType = "Nested"  -> NestedConstraint(s)
      [] StateType = "RaftCurrentTerm" -> RaftConstraint(s)

\* the either calls of StateType::generate in program order
Program ==
    CASE StateType = "Generic" -> GenericProgram
      [] StateType = "Jug"     -> JugProgram
      [] StateType = "Raft"    -> RaftProgram
      [] StateType = "Nested"  -> NestedProgram
      [] StateType = "RaftCurrentTerm" -> RaftProgram

\* the condition under which generate reaches the either call at point k
Guard(k, s) ==
    CASE StateType = "Generic" -> GenericGuard(Program[k].id, s)
      [] StateType = "Jug"     -> JugGuard(Program[k].id, s)
      [] StateType = "Raft"    -> RaftGuard(Program[k], s)
      [] StateType = "Nested"  -> NestedGuard(Program[k], s)
      [] StateType = "RaftCurrentTerm" -> RaftGuard(Program[k], s)

\* what the lambda passed to the either call at point k does to the state
Branch(k, s) ==
    CASE StateType = "Generic" -> GenericBranch(Program[k].id, s)
      [] StateType = "Jug"     -> JugBranch(Program[k].id, s)
      [] StateType = "Raft"    -> RaftBranch(Program[k], s)
      [] StateType = "Nested"  -> NestedBranch(Program[k], s)
      [] StateType = "RaftCurrentTerm" -> RaftBranch(Program[k], s)

\* values the read through end() may produce that end the walk of trace
\* (a value with a non-zero prevHash only repeats the undefined read)
Garbage ==
    CASE StateType = "Generic" -> [f : Values, prevHash : {0}]
      [] StateType = "Jug"     -> [big : {0, 5}, small : {0, 3}, prevHash : {0}]
      [] StateType \in {"Raft", "Nested", "RaftCurrentTerm"} ->
            [globalCurrentTerm : {0, 1},
             states : {[i \in 1..ALL_NODES |-> "Secondary"]},
             logs : {[i \in 1..ALL_NODES |-> <<>>]},
             prevHash : {0}]

-----------------------------------------------------------------------------
(* Checker<StateType>                                                      *)

\* what a call of onNewState leaves behind: the members of the checker,
\* the evaluation counts, and whether it ended by reporting a violation
Outcome(seen, queue, st, ev, violated) ==
    [seen |-> seen, queue |-> queue, stats |-> st, evals |-> ev,
     violated |-> violated]

\* onNewState with the constraint tested before the invariant
onNewStateConstraintFirst(state) ==
    LET fp      == hash(state)
        counted == [stats EXCEPT !.generated = @ + 1]
        seen1   == (fp :> state) @@ seenStates
        stats1  == [counted EXCEPT !.unique = @ + 1]
        evals1  == [evals EXCEPT !.con = @ + 1]
        evals2  == [evals1 EXCEPT !.inv = @ + 1]
    IN  IF fp \in DOMAIN seenStates
        THEN Outcome(seenStates, unvisited, counted, evals, FALSE)
        ELSE IF ~satisfyConstraint(state)
        THEN Outcome(seen1, unvisited, stats1, evals1, FALSE)
        ELSE IF ~satisfyInvariant(state)
        THEN Outcome(seen1, unvisited, stats1, evals2, TRUE)
        ELSE Outcome(seen1, Append(unvisited, state), stats1, evals2, FALSE)

\* onNewState that prints the violation but does not throw
onNewStateNoThrow(state) ==
    LET fp      == hash(state)
        counted == [stats EXCEPT !.generated = @ + 1]
        seen1   == (fp :> state) @@ seenStates
        stats1  == [counted EXCEPT !.unique = @ + 1]
        evals1  == [evals EXCEPT !.inv = @ + 1]
        evals2  == [evals1 EXCEPT !.con = @ + 1]
    IN  IF fp \in DOMAIN seenStates
        THEN Outcome(seenStates, unvisited, counted, evals, FALSE)
        ELSE IF ~satisfyConstraint(state)
        THEN Outcome(seen1, unvisited, stats1, evals2, FALSE)
        ELSE Outcome(seen1, Append(unvisited, state), stats1, evals2, FALSE)

\* onNewState without the satisfyConstraint test
onNewStateNoConstraint(state) ==
    LET fp      == hash(state)
        counted == [stats EXCEPT !.generated = @ + 1]
        seen1   == (fp :> state) @@ seenStates
        stats1  == [counted EXCEPT !.unique = @ + 1]
        evals1  == [evals EXCEPT !.inv = @ + 1]
    IN  IF fp \in DOMAIN seenStates
        THEN Outcome(seenStates, unvisited, counted, evals, FALSE)
        ELSE IF ~satisfyInvariant(state)
        THEN Outcome(seen1, unvisited, stats1, evals1, TRUE)
        ELSE Outcome(seen1, Append(unvisited, state), stats1, evals1, FALSE)

\* onNewState with the invariant tested before the Seen-Set insertion
onNewStateInvariantFirst(state) ==
    LET fp      == hash(state)
        counted == [stats EXCEPT !.generated = @ + 1]
        seen1   == (fp :> state) @@ seenStates
        stats1  == [counted EXCEPT !.unique = @ + 1]
        evals1  == [evals EXCEPT !.inv = @ + 1]
        evals2  == [evals1 EXCEPT !.con = @ + 1]
    IN  IF ~satisfyInvariant(state)
        THEN Outcome(seenStates, unvisited, counted, evals1, TRUE)
        ELSE IF fp \in DOMAIN seenStates
        THEN Outcome(seenStates, unvisited, counted, evals1, FALSE)
        ELSE IF ~satisfyConstraint(state)
        THEN Outcome(seen1, unvisited, stats1, evals2, FALSE)
        ELSE Outcome(seen1, Append(unvisited, state), stats1, evals2, FALSE)

\* onNewState that counts unique before it looks the fingerprint up
onNewStateCountsFirst(state) ==
    LET fp      == hash(state)
        counted == [stats EXCEPT !.generated = @ + 1, !.unique = @ + 1]
        seen1   == (fp :> state) @@ seenStates
        evals1  == [evals EXCEPT !.inv = @ + 1]
        evals2  == [evals1 EXCEPT !.con = @ + 1]
    IN  IF fp \in DOMAIN seenStates
        THEN Outcome(seenStates, unvisited, counted, evals, FALSE)
        ELSE IF ~satisfyInvariant(state)
        THEN Outcome(seen1, unvisited, counted, evals1, TRUE)
        ELSE IF ~satisfyConstraint(state)
        THEN Outcome(seen1, unvisited, counted, evals2, FALSE)
        ELSE Outcome(seen1, Append(unvisited, state), counted, evals2, FALSE)

\* onNewState that queues a state whose fingerprint is already stored
onNewStateQueuesDuplicates(state) ==
    LET fp      == hash(state)
        counted == [stats EXCEPT !.generated = @ + 1]
        seen1   == (fp :> state) @@ seenStates
        stats1  == [counted EXCEPT !.unique = @ + 1]
        evals1  == [evals EXCEPT !.inv = @ + 1]
        evals2  == [evals1 EXCEPT !.con = @ + 1]
    IN  IF fp \in DOMAIN seenStates
        THEN Outcome(seenStates, Append(unvisited, state), counted, evals, FALSE)
        ELSE IF ~satisfyInvariant(state)
        THEN Outcome(seen1, unvisited, stats1, evals1, TRUE)
        ELSE IF ~satisfyConstraint(state)
        THEN Outcome(seen1, unvisited, stats1, evals2, FALSE)
        ELSE Outcome(seen1, Append(unvisited, state), stats1, evals2, FALSE)

\* onNewState that tests the invariant first and stores only a state that
\* passes it, and goes on after a violation
onNewStateSkipsViolation(state) ==
    LET fp      == hash(state)
        counted == [stats EXCEPT !.generated = @ + 1]
        seen1   == (fp :> state) @@ seenStates
        stats1  == [counted EXCEPT !.unique = @ + 1]
        evals1  == [evals EXCEPT !.inv = @ + 1]
        evals2  == [evals1 EXCEPT !.con = @ + 1]
    IN  IF fp \in DOMAIN seenStates
        THEN Outcome(seenStates, unvisited, counted, evals, FALSE)
        ELSE IF ~satisfyInvariant(state)
        THEN Outcome(seen1, Append(unvisited, state), stats1, evals1, FALSE)
        ELSE IF ~satisfyConstraint(state)
        THEN Outcome(seen1, unvisited, stats1, evals2, FALSE)
        ELSE Outcome(seen1, Append(unvisited, state), stats1, evals2, FALSE)

\* onNewState that stores with _seenStates[fp] = state instead of insert
onNewStateOverwrites(state) ==
    LET fp      == hash(state)
        counted == [stats EXCEPT !.generated = @ + 1]
        seen1   == (fp :> state) @@ seenStates
        stats1  == [counted EXCEPT !.unique = @ + 1]
        evals1  == [evals EXCEPT !.inv = @ + 1]
        evals2  == [evals1 EXCEPT !.con = @ + 1]
    IN  IF fp \in DOMAIN seenStates
        THEN Outcome(seen1, unvisited, counted, evals, FALSE)
        ELSE IF ~satisfyInvariant(state)
        THEN Outcome(seen1, unvisited, stats1, evals1, TRUE)
        ELSE IF ~satisfyConstraint(state)
        THEN Outcome(seen1, unvisited, stats1, evals2, FALSE)
        ELSE Outcome(seen1, Append(unvisited, state), stats1, evals2, FALSE)

\* Checker::onNewState(state) on a checker whose members are those of c, up
\* to the point where it returns, throws or calls trace
onNewStateFrom(c, state) ==
    LET fp      == hash(state)
        counted == [c.stats EXCEPT !.generated = @ + 1]
        seen1   == (fp :> state) @@ c.seen
        stats1  == [counted EXCEPT !.unique = @ + 1]
        evals1  == [c.evals EXCEPT !.inv = @ + 1]
        evals2  == [evals1 EXCEPT !.con = @ + 1]
    IN  IF fp \in DOMAIN c.seen
        THEN Outcome(c.seen, c.queue, counted, c.evals, FALSE)
        ELSE IF ~satisfyInvariant(state)
        THEN Outcome(seen1, c.queue, stats1, evals1, TRUE)
        ELSE IF ~satisfyConstraint(state)
        THEN Outcome(seen1, c.queue, stats1, evals2, FALSE)
        ELSE Outcome(seen1, Append(c.queue, state), stats1, evals2, FALSE)

\* Checker::onNewState(state) on the checker as it is now
onNewState(state) ==
    onNewStateFrom(Outcome(seenStates, unvisited, stats, evals, FALSE), state)

\* the effect of one onNewState(state) call on the checker: on a violation
\* "Violated invariant." is printed and trace(state) starts, otherwise the
\* caller goes on at `next'
Call(state, next) ==
    LET r == onNewState(state)
    IN  /\ seenStates' = r.seen
        /\ unvisited' = r.queue
        /\ stats' = r.stats
        /\ evals' = r.evals
        /\ IF r.violated
           THEN /\ pc' = "trace"
                /\ out' = [out EXCEPT !.violated = TRUE]
                /\ tr' = <<state>>
                /\ cur' = state
           ELSE /\ pc' = next
                /\ UNCHANGED <<out, tr, cur>>

\* the first either call generate reaches from point k on, 0 if it returns
NextPoint(k, s) ==
    LET enabled == {j \in k..Len(Program) : Guard(j, s)}
    IN  IF enabled = {} THEN 0
        ELSE CHOOSE j \in enabled : \A i \in enabled : j <= i

\* run: for (auto& s : initialStates) onNewState(s);
AdmitInitial ==
    /\ pc = "init"
    /\ idx <= Len(initialStates)
    /\ Call(initialStates[idx], IF idx = Len(initialStates) THEN "loop" ELSE "init")
    /\ idx' = idx + 1
    /\ UNCHANGED <<StateType, mdl, initialStates, curState, newState, gpc,
                   frames, popped, emitted>>

\* the loop body with front() but without pop()
PopKeepsFront ==
    /\ pc = "loop"
    /\ unvisited # <<>>
    /\ curState' = Head(unvisited)
    /\ unvisited' = unvisited
    /\ newState' = [Head(unvisited) EXCEPT !.prevHash = hash(Head(unvisited))]
    /\ popped' = Append(popped, Head(unvisited))
    /\ emitted' = <<>>
    /\ gpc' = 1
    /\ pc' = "gen"
    /\ UNCHANGED <<StateType, mdl, initialStates, idx, seenStates, stats,
                   frames, tr, cur, out, evals>>

\* run: curState = front(); pop(); newState = curState;
\*      newState.prevHash = curState.hash(); newState.generate() is entered
Pop ==
    /\ pc = "loop"
    /\ unvisited # <<>>
    /\ curState' = Head(unvisited)
    /\ unvisited' = Tail(unvisited)
    /\ newState' = [Head(unvisited) EXCEPT !.prevHash = hash(Head(unvisited))]
    /\ popped' = Append(popped, Head(unvisited))
    /\ emitted' = <<>>
    /\ gpc' = 1
    /\ pc' = "gen"
    /\ UNCHANGED <<StateType, mdl, initialStates, idx, seenStates, stats,
                   frames, tr, cur, out, evals>>

\* either that hands the snapshot, not the mutated state, to onNewState
eitherEmitsSnapshot(k) ==
    LET temp == newState
    IN  /\ Call(temp, "gen")
        /\ emitted' = Append(emitted, temp)
        /\ newState' = temp
        /\ gpc' = k + 1

\* either without the final getState() = temp
eitherNoRestore(k) ==
    LET mutated == Branch(k, newState)
    IN  /\ Call(mutated, "gen")
        /\ emitted' = Append(emitted, mutated)
        /\ newState' = mutated
        /\ gpc' = k + 1

\* ModelState::either(fun) with a fun that makes no either call of its own:
\* temp = getState(); fun(); onNewState(getState()); getState() = temp;
\* (an exception leaves onNewState before the last assignment)
either(k) ==
    LET temp    == newState
        mutated == Branch(k, newState)
    IN  /\ Call(mutated, "gen")
        /\ emitted' = Append(emitted, mutated)
        /\ newState' = IF onNewState(mutated).violated THEN mutated ELSE temp
        /\ gpc' = k + 1

\* generate runs up to and through its next either call
Either ==
    /\ pc = "gen"
    /\ NextPoint(gpc, newState) # 0
    /\ Program[NextPoint(gpc, newState)].kind = "leaf"
    /\ either(NextPoint(gpc, newState))
    /\ UNCHANGED <<StateType, mdl, initialStates, idx, curState, frames, popped>>

\* ModelState::either(fun) with a fun that makes either calls of its own,
\* first half: temp = getState(); and fun() is entered
EitherEnter ==
    /\ pc = "gen"
    /\ NextPoint(gpc, newState) # 0
    /\ Program[NextPoint(gpc, newState)].kind = "enter"
    /\ frames' = Append(frames, newState)
    /\ gpc' = NextPoint(gpc, newState) + 1
    /\ UNCHANGED <<StateType, mdl, initialStates, pc, idx, seenStates,
                   unvisited, stats, curState, newState, tr, cur, out, evals,
                   popped, emitted>>

\* second half: fun() has returned; onNewState(getState()); getState() = temp;
EitherExit ==
    /\ pc = "gen"
    /\ NextPoint(gpc, newState) # 0
    /\ Program[NextPoint(gpc, newState)].kind = "exit"
    /\ Call(newState, "gen")
    /\ emitted' = Append(emitted, newState)
    /\ IF onNewState(newState).violated
       THEN UNCHANGED <<newState, frames>>
       ELSE /\ newState' = frames[Len(frames)]
            /\ frames' = SubSeq(frames, 1, Len(frames) - 1)
    /\ gpc' = NextPoint(gpc, newState) + 1
    /\ UNCHANGED <<StateType, mdl, initialStates, idx, curState, popped>>

\* run without the onNewState(newState) call after generate
AfterGenerateNoCall ==
    /\ pc = "gen"
    /\ NextPoint(gpc, newState) = 0
    /\ pc' = "loop"
    /\ UNCHANGED <<StateType, mdl, initialStates, idx, seenStates, unvisited,
                   stats, curState, newState, gpc, frames, tr, cur, out, evals,
                   popped, emitted>>

\* generate returns and run calls onNewState(newState)
AfterGenerate ==
    /\ pc = "gen"
    /\ NextPoint(gpc, newState) = 0
    /\ Call(newState, "loop")
    /\ UNCHANGED <<StateType, mdl, initialStates, idx, curState, newState, gpc,
                   frames, popped, emitted>>

\* the arguments of the onNewState calls one iteration of run's loop makes
\* when none of them throws, in order: those of the either calls generate
\* reaches from point k on with working state w, then the call run makes
CallsFrom(k, w) ==
    LET RECURSIVE calls(_)
        calls(j) ==
            IF j > Len(Program) THEN <<w>>
            ELSE IF Program[j].kind = "enter" \/ ~Guard(j, w) THEN calls(j + 1)
            ELSE IF Program[j].kind = "leaf"
                 THEN <<Branch(j, w)>> \o calls(j + 1)
                 ELSE <<w>> \o calls(j + 1)
    IN  calls(k)

\* the checker after the calls onNewState(args[n + 1]), ... made one after
\* the other until one of them throws; n counts the calls made
RECURSIVE CallAll(_, _, _)
CallAll(c, args, n) ==
    IF n = Len(args) \/ c.violated THEN [c |-> c, n |-> n]
    ELSE CallAll(onNewStateFrom(c, args[n + 1]), args, n + 1)

\* run: one whole iteration of the while loop: front, pop, the working copy,
\* generate with every either call it makes, and onNewState(newState); a
\* violation leaves the iteration at the call that found it
Iterate ==
    /\ pc = "loop"
    /\ unvisited # <<>>
    /\ LET p    == Head(unvisited)
           w    == [p EXCEPT !.prevHash = hash(p)]
           args == CallsFrom(1, w)
           r    == CallAll(Outcome(seenStates, Tail(unvisited), stats, evals, FALSE),
                           args, 0)
       IN  /\ seenStates' = r.c.seen
           /\ unvisited' = r.c.queue
           /\ stats' = r.c.stats
           /\ evals' = r.c.evals
           /\ curState' = p
           /\ popped' = Append(popped, p)
           /\ gpc' = Len(Program) + 1
           /\ frames' = <<>>
           /\ IF r.c.violated
              THEN /\ pc' = "trace"
                   /\ out' = [out EXCEPT !.violated = TRUE]
                   /\ tr' = <<args[r.n]>>
                   /\ cur' = args[r.n]
                   /\ newState' = args[r.n]
                   /\ emitted' = SubSeq(args, 1, IF r.n = Len(args)
                                                 THEN r.n - 1 ELSE r.n)
              ELSE /\ pc' = "loop"
                   /\ newState' = w
                   /\ emitted' = SubSeq(args, 1, Len(args) - 1)
                   /\ UNCHANGED <<out, tr, cur>>
    /\ UNCHANGED <<StateType, mdl, initialStates, idx>>

\* trace: one iteration of while (cur.prevHash != 0) with the key present
TraceStep ==
    /\ pc = "trace"
    /\ cur.prevHash # 0
    /\ cur.prevHash \in DOMAIN seenStates
    /\ IF Len(tr) < MaxTrace
       THEN /\ cur' = seenStates[cur.prevHash]
            /\ tr' = Append(tr, seenStates[cur.prevHash])
            /\ pc' = "trace"
       ELSE \* push_back cannot allocate: std::bad_alloc leaves run uncaught
            /\ pc' = "aborted"
            /\ UNCHANGED <<cur, tr>>
    /\ UNCHANGED <<StateType, mdl, initialStates, idx, seenStates, unvisited,
                   stats, curState, newState, gpc, frames, out, evals, popped,
                   emitted>>

\* trace: find() returns end() and ->second is read through it: undefined;
\* the process dies or the loop goes on with whatever the read produced
TraceMissing ==
    /\ pc = "trace"
    /\ cur.prevHash # 0
    /\ cur.prevHash \notin DOMAIN seenStates
    /\ \/ /\ pc' = "aborted"
          /\ UNCHANGED <<cur, tr>>
       \/ /\ Len(tr) < MaxTrace
          /\ \E g \in Garbage :
                /\ cur' = g
                /\ tr' = Append(tr, g)
          /\ pc' = "trace"
    /\ UNCHANGED <<StateType, mdl, initialStates, idx, seenStates, unvisited,
                   stats, curState, newState, gpc, frames, out, evals, popped,
                   emitted>>

\* trace returns the reversed vector, onNewState prints it and throws, run
\* catches the exception and prints "Model checking finished."
TraceDone ==
    /\ pc = "trace"
    /\ cur.prevHash = 0
    /\ out' = [out EXCEPT !.trace = Reverse(tr), !.finished = TRUE]
    /\ pc' = "done"
    /\ UNCHANGED <<StateType, mdl, initialStates, idx, seenStates, unvisited,
                   stats, curState, newState, gpc, frames, tr, cur, evals,
                   popped, emitted>>

\* run with the loop test inverted: while (_unvisited.empty())
FinishInverted ==
    /\ pc = "loop"
    /\ unvisited # <<>>
    /\ out' = [out EXCEPT !.finished = TRUE]
    /\ pc' = "done"
    /\ UNCHANGED <<StateType, mdl, initialStates, idx, seenStates, unvisited,
                   stats, curState, newState, gpc, frames, tr, cur, evals,
                   popped, emitted>>

\* run: the while loop ends on an empty queue, final statistics are printed
Finish ==
    /\ pc = "loop"
    /\ unvisited = <<>>
    /\ out' = [out EXCEPT !.finished = TRUE]
    /\ pc' = "done"
    /\ UNCHANGED <<StateType, mdl, initialStates, idx, seenStates, unvisited,
                   stats, curState, newState, gpc, frames, tr, cur, evals,
                   popped, emitted>>

\* the checker as constructed, about to run on the given initial states
Start(type, model, inits) ==
    /\ StateType = type
    /\ mdl = model
    /\ initialStates = inits
    /\ pc = IF inits = <<>> THEN "loop" ELSE "init"
    /\ idx = 1
    /\ seenStates = <<>>
    /\ unvisited = <<>>
    /\ stats = [generated |-> 0, unique |-> 0]
    /\ curState = NoState
    /\ newState = NoState
    /\ gpc = 0
    /\ frames = <<>>
    /\ tr = <<>>
    /\ cur = NoState
    /\ out = [violated |-> FALSE, trace |-> <<>>, finished |-> FALSE]
    /\ evals = [inv |-> 0, con |-> 0]
    /\ popped = <<>>
    /\ emitted = <<>>

\* what the caller may leave in the prevHash of an initial state: run never
\* assigns it and main never initialises it
InitialPrevHash == {0, 2, NumValues + 1}

GenericInitialStates ==
    { <<[f |-> 1, prevHash |-> p]>> : p \in InitialPrevHash }

\* die_hard_checker.cpp, main: big and small are set, prevHash is not
JugInitialStates ==
    { <<[big |-> 0, small |-> 0, prevHash |-> p]>> :
        p \in {0, JugHash([big |-> 5, small |-> 0, prevHash |-> 0]), 100} }

\* mongo_raft_checker.cpp, main: term 0, N1 primary, prevHash is not set
RaftInitialStates ==
    { <<[globalCurrentTerm |-> 0,
         states |-> <<"Primary", "Secondary", "Secondary">>,
         logs |-> <<<<>>, <<>>, <<>>>>,
         prevHash |-> p]>> : p \in {0, 2, 1000000000} }

Init ==
    \/ \E m \in GenericModels, inits \in GenericInitialStates :
            Start("Generic", m, inits)
    \/ \E inits \in JugInitialStates : Start("Jug", <<>>, inits)
    \/ \E inits \in RaftInitialStates : Start("Raft", <<>>, inits)
    \/ \E inits \in RaftInitialStates : Start("Nested", <<>>, inits)

Next ==
    \/ AdmitInitial
    \/ Pop
    \/ Either
    \/ EitherEnter
    \/ EitherExit
    \/ AfterGenerate
    \/ TraceStep
    \/ TraceMissing
    \/ TraceDone
    \/ Finish

Spec == Init /\ [][Next]_vars

\* run is one thread that always takes its next step
FairSpec == Spec /\ WF_vars(Next)

\* the programs of the repository, and the replication model with
\* RollbackCommitted gated on the current term
CurrentTermInit ==
    \/ \E inits \in JugInitialStates : Start("Jug", <<>>, inits)
    \/ \E inits \in RaftInitialStates : Start("Raft", <<>>, inits)
    \/ \E inits \in RaftInitialStates : Start("Nested", <<>>, inits)
    \/ \E inits \in RaftInitialStates : Start("RaftCurrentTerm", <<>>, inits)

\* run taken one loop iteration at a time
LoopNext ==
    \/ AdmitInitial
    \/ Iterate
    \/ TraceStep
    \/ TraceMissing
    \/ TraceDone
    \/ Finish

CurrentTermSpec == CurrentTermInit /\ [][LoopNext]_vars

\* run called with a vector of two initial states, each with whatever its
\* caller left in prevHash
GenericInitialPairs ==
    { <<[f |-> a, prevHash |-> p], [f |-> b, prevHash |-> q]>> :
        a \in Values, b \in Values, p \in {0, NumValues + 1},
        q \in {0, NumValues + 1} }

InitialsInit ==
    \E m \in GenericModels, inits \in GenericInitialPairs :
        Start("Generic", m, inits)

InitialsSpec == InitialsInit /\ [][LoopNext]_vars

-----------------------------------------------------------------------------
(* The standalone jug checker of checker.cpp: its own State, Checker and   *)
(* DieHardStateGenerator. It keeps no statistics and has no constraint.    *)

\* State::hash: ((Fingerprint)big << 8) | (Fingerprint)small; a negative
\* small sign-extends to ones in every bit above its own
StandaloneHash(s) ==
    IF s.small < 0 THEN s.small ELSE (s.big * 256) + s.small

\* State::satisfyInvariant
StandaloneInvariant(s) == s.big # 4

\* the lambdas DieHardStateGenerator::generate passes to wrap, in order
StandaloneBranch(k, s) ==
    CASE k = 1 -> [s EXCEPT !.small = 3]
      [] k = 2 -> [s EXCEPT !.big = 5]
      [] k = 3 -> [s EXCEPT !.small = 0]
      [] k = 4 -> [s EXCEPT !.big = 0]
      [] k = 5 -> IF s.big + s.small > 5
                  THEN LET s1 == [s EXCEPT !.big = 5]
                       IN  [s1 EXCEPT !.small = Int8(s1.big + s1.small - 5)]
                  ELSE LET s1 == [s EXCEPT !.big = Int8(s.big + s.small)]
                       IN  [s1 EXCEPT !.small = 0]
      [] k = 6 -> IF s.big + s.small > 3
                  THEN LET s1 == [s EXCEPT !.big = Int8(s.big + s.small - 3)]
                       IN  [s1 EXCEPT !.small = 3]
                  ELSE LET s1 == [s EXCEPT !.small = Int8(s.small + s.big)]
                       IN  [s1 EXCEPT !.big = 0]

\* Checker::_onNewState(state): the invariant is tested first, and a state
\* that fails it is traced and thrown without being stored
StandaloneOnNewState(state, next) ==
    LET fp == StandaloneHash(state)
    IN  IF ~StandaloneInvariant(state)
        THEN /\ pc' = "trace"
             /\ out' = [out EXCEPT !.violated = TRUE]
             /\ tr' = <<state>>
             /\ cur' = state
             /\ UNCHANGED <<seenStates, unvisited>>
        ELSE /\ pc' = next
             /\ seenStates' = IF fp \in DOMAIN seenStates
                              THEN seenStates
                              ELSE (fp :> state) @@ seenStates
             /\ unvisited' = IF fp \in DOMAIN seenStates
                             THEN unvisited
                             ELSE Append(unvisited, state)
             /\ UNCHANGED <<out, tr, cur>>

\* Checker::run: for (auto& s : initialStates) _onNewState(s);
StandaloneAdmitInitial ==
    /\ pc = "init"
    /\ idx <= Len(initialStates)
    /\ StandaloneOnNewState(initialStates[idx],
                            IF idx = Len(initialStates) THEN "loop" ELSE "init")
    /\ idx' = idx + 1
    /\ UNCHANGED <<StateType, mdl, initialStates, stats, curState, newState,
                   gpc, frames, evals, popped, emitted>>

\* Checker::run: the test of the while loop and, when the queue is not
\* empty, front(), pop() and newState.prevHash = curState.hash()
StandaloneLoop ==
    /\ pc = "loop"
    /\ IF unvisited = <<>>
       THEN /\ out' = [out EXCEPT !.finished = TRUE]
            /\ pc' = "done"
            /\ UNCHANGED <<unvisited, curState, newState, gpc, popped, emitted>>
       ELSE /\ curState' = Head(unvisited)
            /\ unvisited' = Tail(unvisited)
            /\ newState' = [Head(unvisited) EXCEPT
                               !.prevHash = StandaloneHash(Head(unvisited))]
            /\ popped' = Append(popped, Head(unvisited))
            /\ emitted' = <<>>
            /\ gpc' = 1
            /\ pc' = "gen"
            /\ UNCHANGED out
    /\ UNCHANGED <<StateType, mdl, initialStates, idx, seenStates, stats,
                   frames, tr, cur, evals>>

\* generate: one call of wrap: temp = state; fun(); onNewState(state);
\* state = temp (not reached when onNewState throws)
StandaloneWrap ==
    /\ pc = "gen"
    /\ gpc \in 1..6
    /\ LET temp    == newState
           mutated == StandaloneBranch(gpc, newState)
       IN  /\ StandaloneOnNewState(mutated, "gen")
           /\ emitted' = Append(emitted, mutated)
           /\ newState' = IF StandaloneInvariant(mutated) THEN temp ELSE mutated
    /\ gpc' = gpc + 1
    /\ UNCHANGED <<StateType, mdl, initialStates, idx, stats, curState, frames,
                   evals, popped>>

\* generate returns after its sixth wrap; run makes no call of its own and
\* goes back to the test of its loop
StandaloneReturn ==
    /\ pc = "gen"
    /\ gpc = 7
    /\ pc' = "loop"
    /\ UNCHANGED <<StateType, mdl, initialStates, idx, seenStates, unvisited,
                   stats, curState, newState, gpc, frames, tr, cur, out, evals,
                   popped, emitted>>

\* Checker::trace: one turn of while (cur.prevHash != 0); the read through
\* end() of a failed find is undefined: the run dies or goes on with some
\* value
StandaloneTraceStep ==
    /\ pc = "trace"
    /\ cur.prevHash # 0
    /\ IF cur.prevHash \in DOMAIN seenStates
       THEN IF Len(tr) < MaxTrace
            THEN /\ cur' = seenStates[cur.prevHash]
                 /\ tr' = Append(tr, seenStates[cur.prevHash])
                 /\ pc' = "trace"
            ELSE /\ pc' = "aborted"
                 /\ UNCHANGED <<cur, tr>>
       ELSE \/ /\ pc' = "aborted"
               /\ UNCHANGED <<cur, tr>>
            \/ /\ Len(tr) < MaxTrace
               /\ \E g \in [big : {0, 5}, small : {0, 3}, prevHash : {0}] :
                     /\ cur' = g
                     /\ tr' = Append(tr, g)
               /\ pc' = "trace"
    /\ UNCHANGED <<StateType, mdl, initialStates, idx, seenStates, unvisited,
                   stats, curState, newState, gpc, frames, out, evals, popped,
                   emitted>>

\* Checker::trace: the walk ends at prevHash == 0; the reversed trace is
\* printed, the exception is thrown and run catches it
StandaloneTraceDone ==
    /\ pc = "trace"
    /\ cur.prevHash = 0
    /\ out' = [out EXCEPT !.trace = Reverse(tr), !.finished = TRUE]
    /\ pc' = "done"
    /\ UNCHANGED <<StateType, mdl, initialStates, idx, seenStates, unvisited,
                   stats, curState, newState, gpc, frames, tr, cur, evals,
                   popped, emitted>>

\* checker.cpp, main: big and small are set to 0, prevHash is not set
StandaloneInitialStates ==
    { <<[big |-> 0, small |-> 0, prevHash |-> p]>> :
        p \in {0, StandaloneHash([big |-> 5, small |-> 0]), 100} }

StandaloneInit ==
    \E inits \in StandaloneInitialStates : Start("Standalone", <<>>, inits)

StandaloneNext ==
    \/ StandaloneAdmitInitial
    \/ StandaloneLoop
    \/ StandaloneWrap
    \/ StandaloneReturn
    \/ StandaloneTraceStep
    \/ StandaloneTraceDone

StandaloneSpec == StandaloneInit /\ [][StandaloneNext]_vars

-----------------------------------------------------------------------------
(* Vocabulary of the properties.                                           *)

\* the states held as values of _seenStates
Stored == {seenStates[fp] : fp \in DOMAIN seenStates}

\* the object run hands to generate for a popped state p
Work(p) == [p EXCEPT !.prevHash = hash(p)]

\* the states generate passes to onNewState when it runs on the popped
\* state p and every either call returns
Emits(p) ==
    {Branch(k, Work(p)) : k \in {j \in DOMAIN Program :
                                   Program[j].kind = "leaf" /\ Guard(j, Work(p))}}
    \cup (IF \E j \in DOMAIN Program : Program[j].kind = "exit"
          THEN {Work(p)} ELSE {})

\* run has returned / the process has ended
Stopped == pc \in {"done", "aborted"}

Injective(h) == \A a, b \in DOMAIN h : h[a] = h[b] => a = b

\* the transition relation of the generic model on the hashed field
GenericSucc(v) ==
    {mdl.branch[k].to : k \in {j \in 1..NumBranches : mdl.branch[j].from = v}}

\* a state the run expands: it passes the invariant and the constraint
Expandable(v) == v \notin mdl.bad /\ v \notin mdl.pruned

InitialValues == {initialStates[i].f : i \in DOMAIN initialStates}

RECURSIVE ReachIn(_, _)
ReachIn(n, S) ==
    IF n = 0 THEN S
    ELSE ReachIn(n - 1, S \cup UNION {GenericSucc(v) : v \in {u \in S : Expandable(u)}})

\* the values reachable from the initial states by chains whose states
\* before the last all pass the invariant and the constraint
GoodReach == ReachIn(NumValues, InitialValues)

RECURSIVE Dist(_, _, _)
Dist(S, v, n) ==
    IF v \in S \/ n > NumValues THEN n
    ELSE Dist(S \cup UNION {GenericSucc(u) : u \in {w \in S : Expandable(w)}}, v, n + 1)

\* least number of generate transitions from an initial state to value v
Depth(v) == Dist(InitialValues, v, 0)

-----------------------------------------------------------------------------
(* C1: detection completeness. With an injective fingerprint, when a state *)
(* violating the invariant is reachable by a chain of states that pass the *)
(* invariant and the constraint, a run that has ended has printed          *)
(* "Violated invariant."; it never ends clean on an empty frontier.        *)
DetectionComplete ==
    (/\ StateType = "Generic"
     /\ Injective(mdl.hash)
     /\ Stopped
     /\ GoodReach \cap mdl.bad # {})
    => out.violated

\* a violation two transitions away was found in a model that also prunes
DetectionWitness ==
    /\ StateType = "Generic"
    /\ Injective(mdl.hash)
    /\ pc = "done"
    /\ out.violated
    /\ mdl.pruned # {}
    /\ Depth(tr[1].f) = 2

(* C2: shortest-path counterexample. Whenever run reports a violation, the *)
(* printed trace has as many transitions as the least number of generate   *)
(* transitions from an initial state to the reported state.                *)
ShortestTrace ==
    (StateType = "Generic" /\ pc = "done" /\ out.violated)
    => Len(out.trace) - 1 = Depth(tr[1].f)

(* C3: trace well-formedness. The printed trace ends in the violating      *)
(* state, starts in an initial state with prevHash 0, and each state is    *)
(* the Seen-Set entry named by its successor's prevHash and emits it.      *)
WellFormedTrace ==
    (pc = "done" /\ out.violated)
    => LET t == out.trace
       IN  /\ t[Len(t)] = tr[1]
           /\ t[1].prevHash = 0
           /\ t[1] \in Range(initialStates)
           /\ \A i \in 1..(Len(t) - 1) :
                /\ t[i + 1].prevHash = hash(t[i])
                /\ t[i + 1].prevHash \in DOMAIN seenStates
                /\ seenStates[t[i + 1].prevHash] = t[i]
                /\ t[i + 1] \in Emits(t[i])

(* C4: the jug puzzle end to end. The run from (0,0) reports a violation   *)
(* and prints exactly (0,0),(5,0),(2,3),(2,0),(0,2),(5,2),(4,3).           *)
JugPuzzleTrace ==
    (StateType = "Jug" /\ Stopped)
    => /\ out.violated
       /\ [i \in DOMAIN out.trace |-> <<out.trace[i].big, out.trace[i].small>>]
            = << <<0, 0>>, <<5, 0>>, <<2, 3>>, <<2, 0>>, <<0, 2>>, <<5, 2>>, <<4, 3>> >>

(* C5: soundness of a clean run. When run ends on an empty frontier with   *)
(* no violation reported, every state in the Seen-Set passes the invariant.*)
CleanRunSound ==
    (pc = "done" /\ ~out.violated)
    => \A s \in Stored : satisfyInvariant(s)

\* a clean run of a model that has a violating state, out of reach
CleanRunWitness ==
    /\ StateType = "Generic"
    /\ pc = "done"
    /\ ~out.violated
    /\ mdl.bad # {}
    /\ Cardinality(DOMAIN seenStates) >= 2

(* C6: constraint pruning. A state failing the constraint is stored and    *)
(* counted but never enters or leaves the frontier: what is queued or      *)
(* popped passes the constraint, every emitted fingerprint is in the       *)
(* Seen-Set and counted, and every stored state is an initial state or was *)
(* emitted by generate on its stored predecessor, which was popped.        *)
ConstraintPruning ==
    /\ \A s \in Range(unvisited) \cup Range(popped) : satisfyConstraint(s)
    /\ \A e \in Range(emitted) : hash(e) \in DOMAIN seenStates
    /\ stats.unique = Cardinality(DOMAIN seenStates)
    /\ \A s \in Stored :
          \/ s \in Range(initialStates)
          \/ /\ s.prevHash \in DOMAIN seenStates
             /\ seenStates[s.prevHash] \in Range(popped)
             /\ s \in Emits(seenStates[s.prevHash])

\* a clean run stored a pruned state whose successor was never admitted
PruningWitness ==
    /\ pc = "done"
    /\ ~out.violated
    /\ \E s \in Stored :
          /\ satisfyInvariant(s)
          /\ ~satisfyConstraint(s)
          /\ \E e \in Emits(s) : hash(e) \notin DOMAIN seenStates

(* C7: idempotence of admission. A call of onNewState with a state whose   *)
(* fingerprint is already in the Seen-Set adds one to generated and leaves *)
(* unique, the Seen-Set and the frontier as they are, and evaluates        *)
(* neither the invariant nor the constraint.                               *)

\* the next step of run is a call of onNewState
Calling ==
    \/ pc = "init"
    \/ /\ pc = "gen"
       /\ (NextPoint(gpc, newState) # 0
             => Program[NextPoint(gpc, newState)].kind # "enter")

\* the state that call is made with
Argument ==
    IF pc = "init" THEN initialStates[idx]
    ELSE IF NextPoint(gpc, newState) = 0 THEN newState
    ELSE IF Program[NextPoint(gpc, newState)].kind = "leaf"
         THEN Branch(NextPoint(gpc, newState), newState)
         ELSE newState

AdmissionIdempotent ==
    [][ (Calling /\ hash(Argument) \in DOMAIN seenStates)
        => /\ stats' = [stats EXCEPT !.generated = @ + 1]
           /\ seenStates' = seenStates
           /\ unvisited' = unvisited
           /\ evals' = evals ]_vars

\* one generate has emitted the same state twice
IdempotenceWitness ==
    /\ pc = "gen"
    /\ \E i, j \in DOMAIN emitted : i < j /\ emitted[i] = emitted[j]
    /\ stats.generated > stats.unique + 1

(* C8: nested emitter isolation. In the generate that calls either inside  *)
(* either, whenever an either call has returned the working state is the   *)
(* state generate started from, so is every snapshot an outer call holds,  *)
(* no step of generate changes the working state or a queued state, and    *)
(* the inner calls emit before the outer call that encloses them.          *)
NestedIsolation ==
    /\ [](StateType = "Nested" /\ pc = "gen"
            => /\ newState = Work(curState)
               /\ \A i \in DOMAIN frames : frames[i] = Work(curState))
    /\ [][ (StateType = "Nested" /\ pc = "gen" /\ pc' = "gen")
            => /\ newState' = newState
               /\ \A i \in DOMAIN unvisited : unvisited'[i] = unvisited[i] ]_vars
    /\ [](StateType = "Nested" /\ pc = "gen" /\ gpc = 12
            => /\ Len(emitted) = 10
               /\ \A i \in 1..9 : emitted[i] = Branch(i + 1, Work(curState))
               /\ emitted[10] = Work(curState))

\* the outer call has returned after an inner branch appended to a log
NestedWitness ==
    /\ StateType = "Nested"
    /\ pc = "gen"
    /\ gpc = 12
    /\ frames = <<>>
    /\ \E i \in 1..9 : emitted[i].logs # curState.logs

(* C9: single-state fixed point. With one initial state that passes the    *)
(* invariant and the constraint and whose generate makes no either call,   *)
(* run ends with generated = 1 and unique = 1.                             *)
FixedPointCase ==
    /\ StateType = "Generic"
    /\ Len(initialStates) = 1
    /\ Expandable(initialStates[1].f)
    /\ GenericSucc(initialStates[1].f) = {}
    /\ \A k \in 1..NumBranches : mdl.branch[k].from # initialStates[1].f

Termination == <>(Stopped /\ (unvisited = <<>> \/ out.violated))

\* the replication model has stopped
TerminationWitness ==
    /\ StateType = "Raft"
    /\ pc = "done"
    /\ seenStates # <<>>

(* C11: determinism. A run is fixed by its model, its ordered initial      *)
(* states and its hash function: from every state the run reaches, the     *)
(* step it takes is the only step it can take, so two runs on the same     *)
(* input make the same admissions and pops and end with the same counts,   *)
(* the same Seen-Set and, on a violation, the same trace.                  *)
Determinism ==
    [][ \A taken \in {vars'} : ~ENABLED (Next /\ vars' # taken) ]_vars

(* C12: the replication model as coded, without the current-term guard.    *)
(* Its run from term 0, N1 primary, empty logs reports a violation, and    *)
(* the violating state has a node whose last log entry is on a majority of *)
(* the logs while another log ends in an entry of a strictly larger term;  *)
(* that state is the last one of the printed trace.                        *)
Server22136(s) ==
    \E me, other \in 1..ALL_NODES :
        /\ s.logs[me] # <<>>
        /\ 2 * Cardinality({i \in 1..ALL_NODES :
                              /\ Len(s.logs[i]) >= Len(s.logs[me])
                              /\ s.logs[i][Len(s.logs[me])] = Last(s.logs[me])})
             > ALL_NODES
        /\ s.logs[other] # <<>>
        /\ Last(s.logs[other]) > Last(s.logs[me])

RollbackOfCommittedFound ==
    (StateType = "Raft" /\ Stopped)
    => /\ out.violated
       /\ Server22136(tr[1])
       /\ pc = "done" => out.trace[Len(out.trace)] = tr[1]

\* the run has printed the trace that ends in the rollback of a committed
\* entry: five states, the last with logs (0,1), (0), ()
RollbackOfCommittedWitness ==
    /\ StateType = "Raft"
    /\ pc = "done"
    /\ out.violated
    /\ Len(out.trace) = 5
    /\ out.trace[5].logs = << <<0, 1>>, <<0>>, <<>> >>
    /\ stats = [generated |-> 189, unique |-> 109]

(* C13: the replication model with RollbackCommitted gated on the current  *)
(* term. Its run from term 0, N1 primary, empty logs never reports a       *)
(* violation and never starts a trace, and it ends on an empty frontier.   *)
CurrentTermClean ==
    StateType = "RaftCurrentTerm"
    => /\ ~out.violated
       /\ pc \in {"init", "loop", "done"}
       /\ pc = "done" => (unvisited = <<>> /\ out.finished)

\* that run has gone past a state in which an entry of an older term is on a
\* majority of the logs and another log can roll it back, the state the
\* ungated invariant reports
CurrentTermWitness ==
    /\ StateType = "RaftCurrentTerm"
    /\ pc = "loop"
    /\ \E fp \in DOMAIN seenStates :
          /\ ~RaftInvariant(seenStates[fp])
          /\ seenStates[fp] \in Range(popped)

(* C14: between calls of onNewState the unique counter equals the number   *)
(* of entries of the Seen-Set, and unique <= generated.                    *)
UniqueCountsSeen ==
    /\ stats.unique = Cardinality(DOMAIN seenStates)
    /\ stats.unique <= stats.generated

\* duplicates have been emitted, so the two counters differ
UniqueCountsSeenWitness ==
    /\ stats.unique >= 2
    /\ stats.generated >= stats.unique + 2
    /\ pc = "loop"

(* C15: predecessor presence. At every point of the run, every state in    *)
(* the Seen-Set whose prevHash is not 0 has that prevHash as a key of the  *)
(* Seen-Set.                                                               *)
PredecessorPresent ==
    \A s \in Stored : s.prevHash # 0 => s.prevHash \in DOMAIN seenStates

(* C16: frontier within Seen-Set. At every point of the run every queued   *)
(* state has its fingerprint as a key of the Seen-Set, and every queued or *)
(* popped state is the state that was inserted under that key.             *)
FrontierWithinSeen ==
    /\ \A s \in Range(unvisited) : hash(s) \in DOMAIN seenStates
    /\ \A s \in Range(unvisited) \cup Range(popped) :
          /\ hash(s) \in DOMAIN seenStates
          /\ seenStates[hash(s)] = s

\* two states are queued while a third has been popped
FrontierWithinSeenWitness ==
    /\ Len(unvisited) >= 2
    /\ popped # <<>>
    /\ stats.generated > stats.unique

(* C17: initial states get no predecessor. Every initial state that run    *)
(* has passed to onNewState is in the Seen-Set with prevHash = 0, whatever *)
(* prevHash the caller supplied.                                           *)
InitialNoPredecessor ==
    \A i \in 1..(idx - 1) :
        /\ hash(initialStates[i]) \in DOMAIN seenStates
        /\ seenStates[hash(initialStates[i])].prevHash = 0

(* C18: a violation stops the exploration. Once onNewState has found a     *)
(* violating state, the run only walks the trace and prints it, once: the  *)
(* exception reaches run, no state is popped, no either call is made, and  *)
(* generated, unique, the Seen-Set and the frontier stay as they are.      *)
ViolationStops ==
    [][ out.violated
        => /\ stats' = stats
           /\ seenStates' = seenStates
           /\ unvisited' = unvisited
           /\ popped' = popped
           /\ emitted' = emitted
           /\ newState' = newState
           /\ out'.violated
           /\ out.trace = <<>>
           /\ pc' \in {"trace", "done"}
           /\ pc' = "done" => (out'.finished /\ out'.trace = Reverse(tr)) ]_vars

(* C19: every state stored in the Seen-Set (counted as unique) satisfied   *)
(* satisfyInvariant when it was admitted.                                  *)
AdmittedSatisfyInvariant ==
    \A s \in Stored : satisfyInvariant(s)

(* C19 as amended: every stored state satisfies the invariant except the   *)
(* one state on which the violation was reported, which onNewState stores  *)
(* and counts before it evaluates the invariant.                           *)
AdmittedExceptReported ==
    /\ ~out.violated => \A s \in Stored : satisfyInvariant(s)
    /\ out.violated =>
          /\ tr[1] \in Stored
          /\ ~satisfyInvariant(tr[1])
          /\ \A s \in Stored : s # tr[1] => satisfyInvariant(s)

\* a violation was reported after other states had been admitted
AdmittedExceptReportedWitness ==
    /\ out.violated
    /\ pc = "done"
    /\ Cardinality(DOMAIN seenStates) >= 3
    /\ stats.unique = Cardinality(DOMAIN seenStates)

(* C20: the fingerprint covers prevHash. A state emitted with the field    *)
(* values of a stored state but from another parent gets a fingerprint of  *)
(* its own and is stored as a second entry.                                *)
Fields(s) == [s EXCEPT !.prevHash = 0]

FingerprintCoversPrevHash ==
    \A e \in Range(emitted), s \in Stored :
        (Fields(e) = Fields(s) /\ e.prevHash # s.prevHash)
        => (hash(e) # hash(s) /\ e \in Stored)

(* C20 as amended: the fingerprint is derived from the model's own fields  *)
(* and not from prevHash, so a state emitted with the field values of a    *)
(* stored state, from whatever parent, has the fingerprint of that entry   *)
(* and the Seen-Set keeps the one entry that was admitted first.           *)
FingerprintOmitsPrevHash ==
    /\ \A e \in Range(emitted), s \in Stored :
          Fields(e) = Fields(s) => (hash(e) = hash(s) /\ seenStates[hash(e)] = s)
    /\ \A s1, s2 \in Stored : Fields(s1) = Fields(s2) => s1 = s2

\* the jug run has emitted (0,0) again, from a parent, and kept the entry of
\* the initial state
FingerprintOmitsPrevHashWitness ==
    /\ StateType = "Jug"
    /\ \E e \in Range(emitted) :
          /\ Fields(e) = Fields(initialStates[1])
          /\ e.prevHash # initialStates[1].prevHash
          /\ seenStates[hash(e)] = initialStates[1]

(* C21: the emitter frame. Every either call that returns has called       *)
(* onNewState exactly once, with the state its fun produced from the       *)
(* working state, and has put the working state back, prevHash included;   *)
(* so every either call of one generate starts from the same state, the    *)
(* popped state with prevHash set to its fingerprint.                      *)
EmitterFrame ==
    [][ (pc = "gen" /\ pc' = "gen")
        => /\ newState = Work(curState)
           /\ newState' = newState
           /\ Program[NextPoint(gpc, newState)].kind # "enter"
                => /\ stats'.generated = stats.generated + 1
                   /\ emitted' = Append(emitted, Argument) ]_vars

\* the jug generate has made two either calls that emitted different
\* states, and works on the popped state again
EmitterFrameWitness ==
    /\ StateType = "Jug"
    /\ pc = "gen"
    /\ Len(emitted) >= 2
    /\ emitted[1] # emitted[2]
    /\ emitted[2] # newState
    /\ newState = Work(curState)

(* C22: over a whole run no fingerprint is pushed onto the frontier more   *)
(* than once: the states popped so far and the states queued now all have  *)
(* different fingerprints, so each is expanded at most once.               *)
EnqueuedOnce ==
    LET pushed == popped \o unvisited
    IN  \A i, j \in DOMAIN pushed : i # j => hash(pushed[i]) # hash(pushed[j])

\* a run has ended after it expanded several states and met duplicates
EnqueuedOnceWitness ==
    /\ pc = "done"
    /\ ~out.violated
    /\ Len(popped) >= 3
    /\ stats.generated >= stats.unique + 3

(* C23: the Seen-Set is insert-only and the first parent wins. A key of    *)
(* the Seen-Set stays a key and the state stored under it, prevHash        *)
(* included, never changes, whatever is emitted later.                     *)
SeenInsertOnly ==
    [][ \A fp \in DOMAIN seenStates :
            /\ fp \in DOMAIN seenStates'
            /\ seenStates'[fp] = seenStates[fp] ]_vars

\* a stored fingerprint was emitted again from a parent other than the one
\* stored with it
SeenInsertOnlyWitness ==
    /\ pc = "loop"
    /\ \E e \in Range(emitted) :
          /\ hash(e) \in DOMAIN seenStates
          /\ seenStates[hash(e)].prevHash # e.prevHash
          /\ seenStates[hash(e)].prevHash # 0

(* C24: a broken predecessor chain is reported. When the trace walk stands *)
(* on a state whose non-zero prevHash is not a key of the Seen-Set, the    *)
(* engine neither goes on walking with an undefined state nor dies on the  *)
(* failed lookup: it ends the walk with a report of its own.               *)
BrokenChainReported ==
    [][ (pc = "trace" /\ cur.prevHash # 0 /\ cur.prevHash \notin DOMAIN seenStates)
        => pc' \notin {"trace", "aborted"} ]_vars

(* C26: the onNewState(newState) call that run makes after generate has    *)
(* returned never admits a state: the working state hashes to the          *)
(* fingerprint of the state just popped, so the call adds one to generated *)
(* and leaves unique, the Seen-Set and the frontier as they were.          *)
ExtraCallAdmitsNothing ==
    [][ (pc = "gen" /\ NextPoint(gpc, newState) = 0)
        => /\ hash(newState) = hash(curState)
           /\ hash(newState) \in DOMAIN seenStates
           /\ stats' = [stats EXCEPT !.generated = @ + 1]
           /\ seenStates' = seenStates
           /\ unvisited' = unvisited
           /\ pc' = "loop" ]_vars

\* the replication run is back in its loop after a generate that emitted
\* states and the call that followed it: every call was counted, and the
\* working state is the expanded state again
ExtraCallWitness ==
    /\ StateType = "Raft"
    /\ pc = "loop"
    /\ Len(popped) = 2
    /\ Len(emitted) >= 2
    /\ newState = Work(curState)
    /\ stats.generated > stats.unique + 1

(* C27: the invariant is checked before the constraint. A call with a      *)
(* state of a new fingerprint that fails satisfyInvariant ends in the      *)
(* violation report and stops the run without evaluating the constraint,   *)
(* also when the state fails satisfyConstraint as well.                    *)
InvariantBeforeConstraint ==
    [][ (Calling /\ hash(Argument) \notin DOMAIN seenStates
                 /\ ~satisfyInvariant(Argument))
        => /\ pc' = "trace"
           /\ out'.violated
           /\ cur' = Argument
           /\ unvisited' = unvisited
           /\ evals'.con = evals.con ]_vars

\* a run ended with the report of a state that fails the invariant and the
\* constraint, reached from an expanded state
InvariantBeforeConstraintWitness ==
    /\ pc = "done"
    /\ out.violated
    /\ popped # <<>>
    /\ ~satisfyInvariant(out.trace[Len(out.trace)])
    /\ ~satisfyConstraint(out.trace[Len(out.trace)])

(* C29: the jug pours conserve water and respect the capacities. For an    *)
(* expanded state with 0 <= big <= 5 and 0 <= small <= 3, SmallToBig and   *)
(* BigToSmall give a state with the same total, within the capacities, in  *)
(* which the receiving jug is full or the pouring jug is empty.            *)
JugPoursConserve ==
    StateType = "Jug" =>
        \A p \in Range(popped) :
            (p.big \in 0..5 /\ p.small \in 0..3) =>
                LET sb == SmallToBig(p)
                    bs == BigToSmall(p)
                IN  /\ sb.big + sb.small = p.big + p.small
                    /\ sb.big \in 0..5 /\ sb.small \in 0..3
                    /\ (sb.big = 5 \/ sb.small = 0)
                    /\ bs.big + bs.small = p.big + p.small
                    /\ bs.big \in 0..5 /\ bs.small \in 0..3
                    /\ (bs.small = 3 \/ bs.big = 0)

(* C25: fingerprint 0 is reserved in the standalone jug checker. No state  *)
(* in its Seen-Set has fingerprint 0, so the trace walk, which stops at    *)
(* prevHash 0, ends at the initial state (0,0): the printed trace starts   *)
(* with the initial state.                                                 *)
FingerprintZeroReserved ==
    StateType = "Standalone" =>
        /\ 0 \notin DOMAIN seenStates
        /\ (pc = "done" /\ out.violated)
              => /\ out.trace[1].big = 0
                 /\ out.trace[1].small = 0

(* C28: a violating initial state is reported without exploration. When    *)
(* run ends on an initial state with prevHash 0 that fails the invariant,  *)
(* the printed trace is exactly that state, generate was never called, the *)
(* initial states after it were not admitted, and unique counts the        *)
(* initial states admitted up to and including the violating one.          *)
ViolatingInitialReported ==
    (/\ pc = "done"
     /\ out.violated
     /\ popped = <<>>
     /\ initialStates[idx - 1].prevHash = 0)
    => /\ ~satisfyInvariant(initialStates[idx - 1])
       /\ out.trace = <<initialStates[idx - 1]>>
       /\ curState = NoState
       /\ newState = NoState
       /\ emitted = <<>>
       /\ DOMAIN seenStates = {hash(initialStates[i]) : i \in 1..(idx - 1)}
       /\ seenStates[hash(initialStates[idx - 1])] = initialStates[idx - 1]
       /\ stats.unique = Cardinality(DOMAIN seenStates)
       /\ stats.generated = idx - 1

\* the first of two initial states failed the invariant and the second, of
\* another fingerprint, was left out
ViolatingInitialWitness ==
    /\ pc = "done"
    /\ out.violated
    /\ popped = <<>>
    /\ Len(initialStates) = 2
    /\ idx = 2
    /\ initialStates[1].prevHash = 0
    /\ hash(initialStates[2]) # hash(initialStates[1])
    /\ stats.unique = 1

====
